---- MODULE Spec2Model ----
(***************************************************************************)
(* State-machine model of pipelines/inference/backend.py: the Local        *)
(* backend (a SQLite table `data`), the Sagemaker backend (capture and     *)
(* ground-truth objects in S3, joined positionally) and the calls both     *)
(* make to the serving / deployment collaborator.                          *)
(***************************************************************************)
EXTENDS Integers, Sequences, FiniteSets, TLC

\* ------------------------------------------------------------ bounds
\* Largest number of rows the local table may hold.
MaxRows == 3
\* Largest number of items in one save() call / in one captured request.
MaxBatch == 2
\* Largest reading of the wall clock (datetime.now), in ticks.
MaxClock == 1
\* Largest number of objects under the capture prefix.
MaxObjects == 2

\* ------------------------------------------------------------ values
\* None / NaN / SQL NULL.
Null == "null"

\* The label domain random.choice draws from.
Species == <<"Adelie", "Chinstrap", "Gentoo">>

\* Predictions the model returns (a small input set).
PredIn == {"Adelie", "Gentoo"}
Confidence == "0.9"

\* ground_truth_quality, in percent, and the values random.random() takes,
\* in percent of [0, 1).
Qualities == {80, 100}
Draws == {0, 99}
\* Indices random.choice may pick in Species.
Choices == {2}

\* Return values: every call's result is one record, so results compare.
RetNone == [kind |-> "none", n |-> 0, rows |-> <<>>]
RetRaised == [kind |-> "raised", n |-> 0, rows |-> <<>>]
RetInt(k) == [kind |-> "int", n |-> k, rows |-> <<>>]
RetTable(t) == [kind |-> "table", n |-> Len(t), rows |-> t]

VARIABLES
    dbFile,     \* Local: "absent" | "empty" (file, no table) | "table"
    db,         \* Local: the rows of table `data`, in rowid order
    clock,      \* datetime.now(), in ticks
    nextUuid,   \* the uuid4 values handed out so far
    leaked,     \* connections the last call opened and did not close
    op,         \* the last call made
    arg,        \* its scalar argument (limit, quality, number of inputs)
    ret,        \* what it returned
    trace,      \* the collaborator and logging calls it made, in order
    endpoint,   \* Sagemaker: the deployment named self.target
    capture,    \* Sagemaker: the objects under data_capture_uri, in key order
    gt,         \* Sagemaker: the objects under ground_truth_uri, by key
    joined      \* Sagemaker: what _load_collected_data returned to the call

vars == <<dbFile, db, clock, nextUuid, leaked, op, arg, ret, trace, endpoint,
          capture, gt, joined>>

localVars == <<dbFile, db, nextUuid>>
s3Vars == <<capture, gt, joined, endpoint>>

\* ------------------------------------------------------------ helpers
Remove(s, i) == SubSeq(s, 1, i - 1) \o SubSeq(s, i + 1, Len(s))

Take(s, k) == SubSeq(s, 1, IF k < Len(s) THEN k ELSE Len(s))

\* ------------------------------------------------------------ Backend
\* Backend.get_fake_label: the prediction when the draw r is below the
\* quality, else random.choice over the three species (index c).
get_fake_label(prediction, quality, r, c) ==
    IF r < quality THEN prediction ELSE Species[c]

\* ------------------------------------------------------------ Local
\* "ORDER BY date DESC": rows by decreasing date; SQLite leaves the order of
\* rows with equal dates open, so the tie-break is an input.
RECURSIVE OrderByDateAsc(_, _)
OrderByDateAsc(rows, tie) ==
    IF rows = <<>> THEN <<>>
    ELSE LET best == CHOOSE i \in 1..Len(rows) :
                       \A j \in 1..Len(rows) :
                          /\ rows[i].date <= rows[j].date
                          /\ rows[j].date = rows[i].date =>
                                IF tie = "rowid" THEN i <= j ELSE j <= i
         IN <<rows[best]>> \o OrderByDateAsc(Remove(rows, best), tie)

RECURSIVE OrderByDateDesc(_, _)
OrderByDateDesc(rows, tie) ==
    IF rows = <<>> THEN <<>>
    ELSE LET best == CHOOSE i \in 1..Len(rows) :
                       \A j \in 1..Len(rows) :
                          /\ rows[j].date <= rows[i].date
                          /\ rows[j].date = rows[i].date =>
                                IF tie = "rowid" THEN i <= j ELSE j <= i
         IN <<rows[best]>> \o OrderByDateDesc(Remove(rows, best), tie)

\* The columns Local.load selects: the features, prediction, ground_truth.
SelectColumns(rows) ==
    [i \in 1..Len(rows) |->
        [features |-> rows[i].features,
         prediction |-> rows[i].prediction,
         ground_truth |-> rows[i].ground_truth]]

\* The query of Local.load: ORDER BY date DESC LIMIT ?.
LoadQueryAscending(rows, limit, tie) ==
    SelectColumns(Take(OrderByDateAsc(rows, tie), limit))
LoadQuery(rows, limit, tie) ==
    SelectColumns(Take(OrderByDateDesc(rows, tie), limit))

\* Local.load(limit).
LocalLoad(limit, tie) ==
    /\ op' = "Local.load"
    /\ arg' = limit
    /\ UNCHANGED <<dbFile, db, clock, nextUuid, s3Vars>>
    /\ IF dbFile = "absent"
       THEN ret' = RetNone /\ leaked' = 0 /\ trace' = <<"logging.error">>
       ELSE IF dbFile = "empty"
       \* read_sql_query raises (no such table): close() is never reached.
       THEN ret' = RetRaised /\ leaked' = 1 /\ trace' = <<>>
       ELSE /\ ret' = RetTable(LoadQuery(db, limit, tie))
            /\ leaked' = 0
            /\ trace' = <<>>

\* The frame Local.save builds from its arguments: one row per input item,
\* stamped with the current time, prediction/confidence from the outputs when
\* there are any, ground_truth None, and a fresh uuid each.
NewRows(model_input, model_output) ==
    [i \in 1..Len(model_input) |->
        [uuid |-> nextUuid + i,
         features |-> model_input[i],
         date |-> clock,
         prediction |-> IF Len(model_output) > 0
                        THEN model_output[i].prediction ELSE Null,
         confidence |-> IF Len(model_output) > 0
                        THEN model_output[i].confidence ELSE Null,
         ground_truth |-> Null]]

\* data.to_sql("data", connection, if_exists="append").
ToSqlReplace(table, rows) == rows
ToSql(table, rows) == table \o rows

\* Local.save(model_input, model_output). fault: "none", or where a
\* sqlite3.Error is raised ("connect", "to_sql"). An output list whose length
\* differs from the input's raises ValueError at the column assignment, which
\* the handler does not catch.
LocalSave(model_input, model_output, fault) ==
    /\ Len(db) + Len(model_input) <= MaxRows
    /\ op' = "Local.save"
    /\ arg' = Len(model_input)
    /\ leaked' = 0
    /\ UNCHANGED <<clock, s3Vars>>
    /\ IF fault = "connect"
       THEN /\ ret' = RetNone
            /\ trace' = <<"logging.exception">>
            /\ UNCHANGED <<dbFile, db, nextUuid>>
       ELSE IF Len(model_output) > 0 /\ Len(model_output) # Len(model_input)
       THEN /\ ret' = RetRaised
            /\ trace' = <<>>
            /\ dbFile' = IF dbFile = "absent" THEN "empty" ELSE dbFile
            /\ UNCHANGED <<db, nextUuid>>
       ELSE IF fault = "to_sql"
       THEN /\ ret' = RetNone
            /\ trace' = <<"logging.exception">>
            /\ dbFile' = IF dbFile = "absent" THEN "empty" ELSE dbFile
            /\ UNCHANGED <<db, nextUuid>>
       ELSE /\ ret' = RetNone
            /\ trace' = <<>>
            /\ dbFile' = "table"
            /\ nextUuid' = nextUuid + Len(model_input)
            /\ db' = ToSql(db, NewRows(model_input, model_output))

\* "SELECT * FROM data WHERE ground_truth IS NULL".
Unlabeled(table) == SelectSeq(table, LAMBDA r : r.ground_truth = Null)

\* "UPDATE data SET ground_truth = ? WHERE uuid = ?".
UpdateEveryRow(table, label, uuid) ==
    [i \in 1..Len(table) |-> [table[i] EXCEPT !.ground_truth = label]]
Update(table, label, uuid) ==
    [i \in 1..Len(table) |->
        IF table[i].uuid = uuid
        THEN [table[i] EXCEPT !.ground_truth = label] ELSE table[i]]

\* The first `done` iterations of the update loop of Local.label.
RECURSIVE UpdateLoop(_, _, _, _)
UpdateLoop(table, df, labels, done) ==
    IF done = 0 THEN table
    ELSE Update(UpdateLoop(table, df, labels, done - 1),
                labels[done], df[done].uuid)

\* connection.close(): what the file holds afterwards. Changes that were
\* not committed are rolled back.
CloseKeepsPending(persisted, pending) == pending
Close(persisted, pending) == persisted

\* What Local.label returns after the commit.
LabelCount(df) == Len(df)

\* Local.label(ground_truth_quality). rnd[i] = <<r, c>> are the random draws
\* for the i-th unlabeled row. failAt = k <= n: the k-th UPDATE raises;
\* failAt = n + 1: the commit raises; failAt = n + 2: nothing raises.
LocalLabel(quality, rnd, failAt) ==
    LET df == IF dbFile = "table" THEN Unlabeled(db) ELSE <<>>
        n == Len(df)
        labels == [i \in 1..n |->
                     get_fake_label(df[i].prediction, quality,
                                    rnd[i][1], rnd[i][2])]
        done == IF failAt <= n THEN failAt - 1 ELSE n
        pending == UpdateLoop(db, df, labels, done)
        committed == failAt = n + 2
    IN /\ op' = "Local.label"
       /\ arg' = quality
       /\ leaked' = 0
       /\ UNCHANGED <<dbFile, clock, nextUuid, s3Vars>>
       /\ IF dbFile # "table" \/ n = 0
          \* no file: 0 before connecting; no table: the query raises and
          \* the handler returns 0; nothing unlabeled: 0.
          THEN /\ ret' = RetInt(0)
               /\ trace' = IF dbFile = "absent" THEN <<"logging.error">>
                            ELSE IF dbFile = "empty"
                            THEN <<"logging.exception">> ELSE <<>>
               /\ UNCHANGED db
          ELSE /\ db' = Close(IF committed THEN pending ELSE db, pending)
               /\ ret' = RetInt(IF committed THEN LabelCount(df) ELSE 0)
               /\ trace' = IF committed THEN <<>>
                            ELSE <<"logging.exception">>

\* ------------------------------------------------------------ Sagemaker
\* Event ids of captured requests, in sorted order (groupby sorts its keys).
Events == <<"E1", "E2">>
\* Labels an external labeling process supplies.
ExtLabels == {"Gentoo"}

NoObject == [present |-> FALSE, lines |-> <<>>]
Object(lines) == [present |-> TRUE, lines |-> lines]

\* Keys under ground_truth_uri, in S3's listing order. Sagemaker.label names
\* its object after the upload time (keys 1..MaxClock + 1); the object of an
\* external process has a name of its own (such as "labels.jsonl"), which
\* sorts after the digits of a time.
LastKey == MaxClock + 2
KeySpace == 1..LastKey
ExternalKeys == {LastKey}
KeyOf(upload_time) == upload_time + 1

RECURSIVE Flatten(_)
Flatten(ss) == IF ss = <<>> THEN <<>> ELSE Head(ss) \o Flatten(Tail(ss))

Indices(s, Test(_)) ==
    SelectSeq([i \in 1..Len(s) |-> i], Test)

\* The listing the paginator returns: every object's lines, by ascending key.
RECURSIVE ListFrom(_, _)
ListFrom(store, k) ==
    IF k > LastKey THEN <<>>
    ELSE (IF store[k].present THEN <<store[k].lines>> ELSE <<>>)
         \o ListFrom(store, k + 1)

\* Sagemaker._load_files: None when the listing is empty, else the JSON lines
\* of every file, concatenated.
LoadFiles(files) == [none |-> files = <<>>, lines |-> Flatten(files)]

\* process_row of _load_collected_data_files: one row per input item, with
\* the parallel prediction, the event's time and id, and species None.
ProcessRow(line) ==
    [i \in 1..Len(line.items) |->
        [features |-> line.items[i].features,
         prediction |-> line.items[i].prediction,
         confidence |-> line.items[i].confidence,
         date |-> line.inferenceTime,
         event_id |-> line.event_id,
         species |-> Null]]

\* sort_values(by="date", ascending=False): rows of equal date keep their
\* order.
SortValues(rows) == OrderByDateDesc(rows, "rowid")

\* Sagemaker._load_collected_data_files. pd.concat of an empty list raises
\* ValueError.
LoadCollectedDataFiles(cap) ==
    LET f == LoadFiles(cap)
    IN IF f.none THEN [raised |-> FALSE, rows |-> <<>>]
       ELSE IF f.lines = <<>> THEN [raised |-> TRUE, rows |-> <<>>]
       ELSE [raised |-> FALSE,
             rows |-> SortValues(Flatten([i \in 1..Len(f.lines) |->
                                             ProcessRow(f.lines[i])]))]

\* Sagemaker._load_ground_truth_files: one row per record, species the
\* record's label list. pd.concat of an empty list raises ValueError.
LoadGroundTruthFiles(store) ==
    LET f == LoadFiles(ListFrom(store, 1))
    IN IF f.none THEN [raised |-> FALSE, rows |-> <<>>]
       ELSE IF f.lines = <<>> THEN [raised |-> TRUE, rows |-> <<>>]
       ELSE [raised |-> FALSE,
             rows |-> [i \in 1..Len(f.lines) |->
                         [event_id |-> f.lines[i].event_id,
                          species |-> f.lines[i].data]]]

\* ground_truth.explode("species"): one row per label, in order; an empty
\* list becomes one row holding NaN.
Explode(rows) ==
    Flatten([i \in 1..Len(rows) |->
        IF rows[i].species = <<>>
        THEN <<[event_id |-> rows[i].event_id, species |-> Null]>>
        ELSE [j \in 1..Len(rows[i].species) |->
                [event_id |-> rows[i].event_id,
                 species |-> rows[i].species[j]]]])

\* groupby("event_id").cumcount(): the running 0-based counter of each row
\* within its event.
CumCountZero(rows) ==
    [i \in 1..Len(rows) |-> 0]
CumCount(rows) ==
    [i \in 1..Len(rows) |->
        Cardinality({j \in 1..(i - 1) : rows[j].event_id = rows[i].event_id})]

\* data.merge(ground_truth, on=["event_id", "index"], how="left"), then
\* species_y renamed to species: the left rows in order, each once per
\* matching right row, or once with NaN when there is none.
MergeInner(data, ground_truth) ==
    LET li == CumCount(data)
        ri == CumCount(ground_truth)
        Hits(i) == Indices(ground_truth,
                      LAMBDA j : /\ ground_truth[j].event_id = data[i].event_id
                                 /\ ri[j] = li[i])
    IN Flatten([i \in 1..Len(data) |->
          [k \in 1..Len(Hits(i)) |->
              [data[i] EXCEPT !.species = ground_truth[Hits(i)[k]].species]]])
Merge(data, ground_truth) ==
    LET li == CumCount(data)
        ri == CumCount(ground_truth)
        Hits(i) == Indices(ground_truth,
                      LAMBDA j : /\ ground_truth[j].event_id = data[i].event_id
                                 /\ ri[j] = li[i])
    IN Flatten([i \in 1..Len(data) |->
          IF Hits(i) = <<>> THEN <<data[i]>>
          ELSE [k \in 1..Len(Hits(i)) |->
              [data[i] EXCEPT !.species = ground_truth[Hits(i)[k]].species]]])

\* Sagemaker._load_collected_data.
LoadCollectedData(cap, store) ==
    LET d == LoadCollectedDataFiles(cap)
        g == IF d.raised THEN d ELSE LoadGroundTruthFiles(store)
    IN IF d.raised \/ g.raised THEN [raised |-> TRUE, rows |-> <<>>]
       ELSE IF Len(d.rows) = 0 THEN [raised |-> FALSE, rows |-> <<>>]
       ELSE IF Len(g.rows) > 0
       THEN [raised |-> FALSE, rows |-> Merge(d.rows, Explode(g.rows))]
       ELSE [raised |-> FALSE, rows |-> d.rows]

\* Sagemaker._load_unlabeled_data.
LoadUnlabeledData(cap, store) ==
    LET c == LoadCollectedData(cap, store)
    IN [raised |-> c.raised,
        rows |-> SelectSeq(c.rows, LAMBDA r : r.species = Null)]

\* What Sagemaker.load keeps of the joined table: the rows with a label,
\* species renamed ground_truth, without date, event_id and confidence, cut
\* to the first `limit`.
Labeled(rows) == SelectSeq(rows, LAMBDA r : r.species # Null)
PublicColumns(rows) ==
    [i \in 1..Len(rows) |->
        [features |-> rows[i].features,
         prediction |-> rows[i].prediction,
         ground_truth |-> rows[i].species]]
LoadResult(rows, limit) == Take(PublicColumns(Labeled(rows)), limit)

\* Sagemaker.load(limit).
SagemakerLoad(limit) ==
    LET c == LoadCollectedData(capture, gt)
    IN /\ op' = "Sagemaker.load"
       /\ arg' = limit
       /\ leaked' = 0
       /\ trace' = <<>>
       /\ UNCHANGED <<localVars, clock, capture, gt, endpoint>>
       /\ IF c.raised
          THEN ret' = RetRaised /\ joined' = <<>>
          ELSE /\ joined' = c.rows
               /\ ret' = RetTable(LoadResult(c.rows, limit))

\* The body Sagemaker.label uploads: one record per event id, in sorted
\* order, holding the labels of that event's unlabeled rows in row order.
Payload(data, labels) ==
    LET Of(e) == Indices(data, LAMBDA i : data[i].event_id = e)
        present == Indices(Events, LAMBDA k : Of(Events[k]) # <<>>)
    IN [g \in 1..Len(present) |->
          [event_id |-> Events[present[g]],
           data |-> [k \in 1..Len(Of(Events[present[g]])) |->
                       labels[Of(Events[present[g]])[k]]]]]

\* s3.put_object(Body, Bucket, Key): the object under Key is now Body.
PutObject(store, key, body) == [store EXCEPT ![key] = Object(body)]

\* Sagemaker.label(ground_truth_quality). rnd[i] = <<r, c>> are the random
\* draws for the i-th unlabeled row.
SagemakerLabel(quality, rnd) ==
    LET u == LoadUnlabeledData(capture, gt)
        data == u.rows
        n == Len(data)
        labels == [i \in 1..n |->
                     get_fake_label(data[i].prediction, quality,
                                    rnd[i][1], rnd[i][2])]
    IN /\ op' = "Sagemaker.label"
       /\ arg' = quality
       /\ leaked' = 0
       /\ trace' = IF ~u.raised /\ n > 0 THEN <<"put_object">> ELSE <<>>
       /\ UNCHANGED <<localVars, clock, capture, endpoint>>
       /\ IF u.raised
          THEN ret' = RetRaised /\ joined' = <<>> /\ UNCHANGED gt
          ELSE /\ joined' = LoadCollectedData(capture, gt).rows
               /\ IF n = 0
                  THEN ret' = RetInt(0) /\ UNCHANGED gt
                  ELSE /\ gt' = PutObject(gt, KeyOf(clock),
                                          Payload(data, labels))
                       /\ ret' = RetInt(n)

\* The prediction the hosted model returns for the i-th item of a request.
ModelPrediction(i) == Species[((i - 1) % 3) + 1]

\* The endpoint captures a request of k items as one new object, which
\* sorts after the objects captured earlier.
PutCapture(event_id, k) ==
    LET items == [i \in 1..k |->
                    [features |-> Len(Flatten([c \in 1..Len(capture) |->
                                     Flatten([l \in 1..Len(capture[c]) |->
                                        capture[c][l].items])])) + i,
                     prediction |-> ModelPrediction(i),
                     confidence |-> Confidence]]
    IN /\ Len(capture) < MaxObjects
       /\ capture' = Append(capture,
             <<[event_id |-> event_id, inferenceTime |-> clock,
                items |-> items]>>)
       /\ op' = "capture"
       /\ arg' = k
       /\ ret' = RetNone
       /\ leaked' = 0
       /\ joined' = <<>>
       /\ trace' = <<>>
       /\ UNCHANGED <<localVars, clock, gt, endpoint>>

\* An external labeling process deposits an object under ground_truth_uri.
PutGroundTruth(key, lines) ==
    /\ ~gt[key].present
    /\ gt' = PutObject(gt, key, lines)
    /\ op' = "ground_truth"
    /\ arg' = key
    /\ ret' = RetNone
    /\ leaked' = 0
    /\ joined' = <<>>
    /\ trace' = <<>>
    /\ UNCHANGED <<localVars, clock, capture, endpoint>>

\* ------------------------------------------------------------ serving
\* Model versions and artifact locations deploy() is called with, and the
\* payloads invoke() sends.
Versions == {1, 2}
Uris == {"s3://models/a", "s3://models/b"}
Payloads == {1, 2}

NoEndpoint == [exists |-> FALSE, version |-> 0, uri |-> Null]
RetResponse(payload) == [kind |-> "response", n |-> payload, rows |-> <<>>]

\* Local.invoke(payload): requests.post with timeout=5, then .json(); every
\* exception is caught, logged and turned into None.
LocalInvoke(payload, outcome) ==
    /\ op' = "Local.invoke"
    /\ arg' = payload
    /\ leaked' = 0
    /\ IF outcome = "ok"
       THEN ret' = RetResponse(payload) /\ trace' = <<"requests.post:ok">>
       ELSE /\ ret' = RetNone
            /\ trace' = <<"requests.post:" \o outcome, "logging.exception">>
    /\ UNCHANGED <<localVars, clock, s3Vars>>

\* Sagemaker.invoke(payload): deployment_client.predict, outside any try.
SagemakerInvoke(payload, outcome) ==
    /\ op' = "Sagemaker.invoke"
    /\ arg' = payload
    /\ leaked' = 0
    /\ outcome = "ok" => endpoint.exists
    /\ trace' = <<"predict:" \o outcome>>
    /\ ret' = IF outcome = "ok" THEN RetResponse(payload) ELSE RetRaised
    /\ UNCHANGED <<localVars, clock, s3Vars>>

\* Local.deploy: not applicable, does nothing.
LocalDeploy(model_uri, model_version) ==
    /\ op' = "Local.deploy"
    /\ arg' = model_version
    /\ leaked' = 0
    /\ ret' = RetNone
    /\ trace' = <<>>
    /\ UNCHANGED <<localVars, clock, s3Vars>>

\* Sagemaker._is_sagemaker_model_running: whether the endpoint's model carries
\* a "version" tag with the requested value.
IsSagemakerModelRunning(deployment, version) ==
    deployment.exists /\ deployment.version = version

\* Sagemaker.deploy(model_uri, model_version). get_deployment raises
\* MlflowException when the endpoint does not exist; update_ok / create_ok say
\* whether update_deployment / create_deployment succeed or raise
\* MlflowException. create_deployment of a name that exists raises.
SagemakerDeploy(model_uri, model_version, update_ok, create_ok) ==
    LET new == [exists |-> TRUE, version |-> model_version, uri |-> model_uri]
    IN /\ op' = "Sagemaker.deploy"
       /\ arg' = model_version
       /\ leaked' = 0
       /\ UNCHANGED <<localVars, clock, capture, gt, joined>>
       /\ IF ~endpoint.exists
          THEN /\ trace' = <<"get_deployment", "create_deployment">>
               /\ endpoint' = IF create_ok THEN new ELSE endpoint
               /\ ret' = IF create_ok THEN RetNone ELSE RetRaised
          ELSE IF IsSagemakerModelRunning(endpoint, model_version)
          THEN /\ trace' = <<"get_deployment">>
               /\ ret' = RetNone
               /\ UNCHANGED endpoint
          ELSE IF update_ok
          THEN /\ trace' = <<"get_deployment", "update_deployment">>
               /\ endpoint' = new
               /\ ret' = RetNone
          \* the MlflowException of update_deployment reaches the handler
          \* meant for the missing endpoint
          ELSE /\ trace' = <<"get_deployment", "update_deployment",
                             "create_deployment">>
               /\ ret' = RetRaised
               /\ UNCHANGED endpoint

\* The clock advances between calls.
Tick ==
    /\ clock < MaxClock
    /\ clock' = clock + 1
    /\ op' = "tick"
    /\ arg' = 0
    /\ ret' = RetNone
    /\ leaked' = 0
    /\ joined' = <<>>
    /\ trace' = <<>>
    /\ UNCHANGED <<localVars, capture, gt, endpoint>>

\* ------------------------------------------------------------ inputs
SeqsUpTo(S, lo, hi) == UNION {[1..k -> S] : k \in lo..hi}

\* The limits load() is called with.
Limits == {1, MaxRows}

Outputs == [prediction : PredIn, confidence : {Confidence}]

\* The feature payloads of a request of k items: every item a caller sends
\* is a payload of its own, so that rows can be told apart.
Request(k) == [i \in 1..k |-> Len(db) + i]

NumUnlabeled == IF dbFile = "table" THEN Len(Unlabeled(db)) ELSE 0

Init ==
    /\ dbFile = "absent"
    /\ db = <<>>
    /\ clock = 0
    /\ nextUuid = 0
    /\ leaked = 0
    /\ op = "init"
    /\ arg = 0
    /\ ret = RetNone
    /\ capture = <<>>
    /\ gt = [k \in KeySpace |-> NoObject]
    /\ joined = <<>>
    /\ trace = <<>>
    /\ endpoint = NoEndpoint

NextLocal ==
    \/ \E limit \in Limits, tie \in {"rowid", "reverse"} :
          LocalLoad(limit, tie)
    \/ \E model_input \in {Request(k) : k \in 1..MaxBatch},
          model_output \in SeqsUpTo(Outputs, 0, MaxBatch),
          fault \in {"none", "connect", "to_sql"} :
          LocalSave(model_input, model_output, fault)
    \/ \E quality \in Qualities,
          rnd \in [1..NumUnlabeled -> Draws \X Choices],
          failAt \in 1..(NumUnlabeled + 2) :
          LocalLabel(quality, rnd, failAt)
    \/ Tick

SpecLocal == Init /\ [][NextLocal]_vars

NumUnlabeledS3 == Len(LoadUnlabeledData(capture, gt).rows)

ExternalBatches ==
    {<<>>} \cup {<<[event_id |-> Events[e], data |-> d]>> :
                    e \in 1..Len(Events), d \in SeqsUpTo(ExtLabels, 1, MaxBatch)}

NextS3 ==
    \/ \E limit \in Limits : SagemakerLoad(limit)
    \/ \E quality \in Qualities,
          rnd \in [1..NumUnlabeledS3 -> Draws \X Choices] :
          SagemakerLabel(quality, rnd)
    \/ \E e \in 1..Len(Events), k \in 1..MaxBatch : PutCapture(Events[e], k)
    \/ \E key \in ExternalKeys, lines \in ExternalBatches :
          PutGroundTruth(key, lines)
    \/ Tick

SpecS3 == Init /\ [][NextS3]_vars

NextServe ==
    \/ \E payload \in Payloads, outcome \in {"ok", "error", "timeout"} :
          LocalInvoke(payload, outcome)
    \/ \E payload \in Payloads, outcome \in {"ok", "error", "timeout"} :
          SagemakerInvoke(payload, outcome)
    \/ \E model_uri \in Uris, model_version \in Versions :
          LocalDeploy(model_uri, model_version)
    \/ \E model_uri \in Uris, model_version \in Versions,
          update_ok \in BOOLEAN, create_ok \in BOOLEAN :
          SagemakerDeploy(model_uri, model_version, update_ok, create_ok)
    \/ Tick

SpecServe == Init /\ [][NextServe]_vars

\* ------------------------------------------------------------ claims
Min(a, b) == IF a < b THEN a ELSE b

Count(calls, c) == Cardinality({i \in 1..Len(calls) : calls[i] = c})

\* The tables _load_collected_data joins, as they stand in the store.
DataTable == LoadCollectedDataFiles(capture).rows
GroundTruthTable == Explode(LoadGroundTruthFiles(gt).rows)

\* `out` is the left outer join of `data` and `g` on (event_id, running
\* counter within the event): the rows of data, in order, each once, with the
\* species of the one row of g that has its key, or null when none has.
IsLeftOuterJoin(out, data, g) ==
    LET li == CumCount(data)
        ri == CumCount(g)
        Match(i) == {j \in 1..Len(g) : /\ g[j].event_id = data[i].event_id
                                       /\ ri[j] = li[i]}
    IN /\ Len(out) = Len(data)
       /\ \A i \in 1..Len(data) :
             /\ [out[i] EXCEPT !.species = Null] = data[i]
             /\ out[i].species # Null <=> Match(i) # {}
             /\ \A j \in Match(i) : out[i].species = g[j].species

\* C1: the table _load_collected_data hands to load and label is the left
\* outer join of the captured rows and the exploded ground-truth rows on
\* (event_id, item_index): every captured row is there once, it has ground
\* truth exactly when a ground-truth row has its key, and no ground-truth row
\* without a captured row appears.
C1_JoinIsLeftOuter ==
    [][(op' \in {"Sagemaker.load", "Sagemaker.label"} /\ ret'.kind # "raised")
          => IsLeftOuterJoin(joined', DataTable, GroundTruthTable)]_vars

\* A load whose join labeled one captured row, left another without ground
\* truth, and dropped a ground-truth row no captured row matches.
C1_Witness ==
    /\ op = "Sagemaker.load"
    /\ ret.kind = "table"
    /\ \E i, k \in 1..Len(joined) :
          joined[i].species # Null /\ joined[k].species = Null
    /\ Len(GroundTruthTable) > Len(Labeled(joined))

\* The labels get_fake_label can return for a prediction at a quality.
FakeLabels(prediction, quality) ==
    {get_fake_label(prediction, quality, r, c) : r \in Draws, c \in Choices}

\* C2: Local.label is all or nothing: either it returns 0 and the table is
\* as it was, or it returns the number of rows it found unlabeled and every
\* one of them carries the label drawn for it; nothing else changes.
C2_LabelAtomic ==
    [][op' = "Local.label" =>
         \/ ret' = RetInt(0) /\ db' = db
         \/ /\ ret' = RetInt(Len(Unlabeled(db)))
            /\ Len(db') = Len(db)
            /\ \A i \in 1..Len(db) :
                  IF db[i].ground_truth = Null
                  THEN /\ db'[i] = [db[i] EXCEPT
                                      !.ground_truth = db'[i].ground_truth]
                       /\ db'[i].ground_truth
                             \in FakeLabels(db[i].prediction, arg')
                  ELSE db'[i] = db[i]]_vars

\* A label call that failed after finding two or more unlabeled rows: it
\* returned 0 and all of them are still unlabeled.
C2_Witness ==
    /\ op = "Local.label"
    /\ ret = RetInt(0)
    /\ trace = <<"logging.exception">>
    /\ dbFile = "table"
    /\ Len(Unlabeled(db)) >= 2
    /\ \E i \in 1..Len(db) : db[i].prediction # Null

\* C3: after label(1.0), every row that was unlabeled before the call has
\* ground truth equal to its own prediction when the store is read back
\* (Local: the column; Sagemaker: the join over the objects now stored).
C3_LabelingCoverage ==
    [][/\ (op' = "Local.label" /\ arg' = 100 /\ trace' = <<>>) =>
             \A i \in 1..Len(db) :
                db[i].ground_truth = Null =>
                   db'[i].ground_truth = db'[i].prediction
       /\ (op' = "Sagemaker.label" /\ arg' = 100 /\ ret'.kind = "int") =>
             LET after == LoadCollectedData(capture', gt')
             IN /\ ~after.raised
                /\ Len(after.rows) = Len(joined')
                /\ \A i \in 1..Len(joined') :
                      joined'[i].species = Null =>
                         after.rows[i].species = after.rows[i].prediction]_vars

\* C4: on a store that does not exist (Local: no database file; Sagemaker:
\* no object under the capture prefix) load returns nothing and label 0,
\* neither raises, and neither creates the store.
C4_AbsenceIsIdempotent ==
    [][/\ (op' = "Local.load" /\ dbFile = "absent") =>
             ret' = RetNone /\ dbFile' = "absent"
       /\ (op' = "Local.label" /\ dbFile = "absent") =>
             ret' = RetInt(0) /\ dbFile' = "absent"
       /\ (op' = "Sagemaker.load" /\ capture = <<>>) =>
             ret' = RetTable(<<>>) /\ capture' = <<>> /\ gt' = gt
       /\ (op' = "Sagemaker.label" /\ capture = <<>>) =>
             ret' = RetInt(0) /\ capture' = <<>> /\ gt' = gt]_vars

Uuids(table) == {table[i].uuid : i \in 1..Len(table)}

\* C5: a successful Local.save appends one row per input item, each with a
\* fresh uuid and null ground_truth, and leaves the rows stored before as
\* they were; no call makes a stored row disappear or changes any of its
\* columns but ground_truth.
C5_SaveIsPureAppend ==
    [][/\ (op' = "Local.save" /\ ret' = RetNone /\ trace' = <<>>) =>
             /\ Len(db') = Len(db) + arg'
             /\ SubSeq(db', 1, Len(db)) = db
             /\ \A i \in (Len(db) + 1)..Len(db') :
                   /\ db'[i].ground_truth = Null
                   /\ db'[i].uuid \notin Uuids(db)
                   /\ \A j \in 1..Len(db') : j # i => db'[j].uuid # db'[i].uuid
       /\ \A i \in 1..Len(db) :
             \E j \in 1..Len(db') :
                db'[j] = [db[i] EXCEPT !.ground_truth = db'[j].ground_truth]]_vars

\* A successful save into a table that already held a labeled row.
C5_Witness ==
    /\ op = "Local.save"
    /\ ret = RetNone
    /\ trace = <<>>
    /\ Len(db) > arg
    /\ db[1].ground_truth # Null
    /\ db[Len(db)].ground_truth = Null

\* C6: Local.load(limit) returns min(limit, rows stored) rows; they are rows
\* of the table with the features they were saved with, in non-increasing
\* date order, and no row left out is newer than a row returned.
C6_LoadRoundTrip ==
    (op = "Local.load" /\ ret.kind = "table") =>
        /\ ret.n = Min(arg, Len(db))
        /\ \A i \in 1..Len(db) : db[i].features = i
        /\ \E idx \in [1..ret.n -> 1..Len(db)] :
              /\ \A k, l \in 1..ret.n : idx[k] = idx[l] => k = l
              /\ \A k \in 1..ret.n :
                    /\ ret.rows[k].features = db[idx[k]].features
                    /\ ret.rows[k].prediction = db[idx[k]].prediction
                    /\ ret.rows[k].ground_truth = db[idx[k]].ground_truth
              /\ \A k \in 1..(ret.n - 1) :
                    db[idx[k]].date >= db[idx[k + 1]].date
              /\ \A j \in 1..Len(db) :
                    (\A k \in 1..ret.n : idx[k] # j) =>
                       \A k \in 1..ret.n : db[j].date <= db[idx[k]].date

\* A load of one row from a table whose newest row is not its first.
C6_Witness ==
    /\ op = "Local.load"
    /\ ret.kind = "table"
    /\ arg = 1
    /\ Len(db) >= 2
    /\ db[1].date < db[Len(db)].date
    /\ ret.rows[1].features = db[Len(db)].features

\* C7: invoke never raises on either backend: a failed call to the serving
\* collaborator gives None, a successful one the response.
C7_InvokeNeverRaises ==
    op \in {"Local.invoke", "Sagemaker.invoke"} =>
        /\ ret.kind # "raised"
        /\ IF trace[1] \in {"requests.post:ok", "predict:ok"}
           THEN ret = RetResponse(arg) ELSE ret = RetNone

\* C8: Sagemaker.deploy issues no update and no create when the endpoint
\* runs the requested version, exactly one update and no create when it runs
\* another, and a create only when no endpoint of that name exists.
C8_DeployCreateOrUpdate ==
    [][op' = "Sagemaker.deploy" =>
         LET running == endpoint.exists /\ endpoint.version = arg'
             updates == Count(trace', "update_deployment")
             creates == Count(trace', "create_deployment")
         IN /\ running => updates = 0 /\ creates = 0 /\ endpoint' = endpoint
            /\ (endpoint.exists /\ ~running) => updates = 1 /\ creates = 0
            /\ creates > 0 => ~endpoint.exists]_vars

\* C9: Sagemaker.load(limit) returns the first `limit` rows of the join that
\* have ground truth, and an empty table when there are no capture objects
\* (whatever the ground-truth objects) or no ground-truth objects.
C9_LoadReturnsLabeled ==
    [][op' = "Sagemaker.load" =>
         /\ ret'.kind = "table"
         /\ ret'.n <= arg'
         /\ \A k \in 1..ret'.n : ret'.rows[k].ground_truth # Null
         /\ ret'.rows = Take(PublicColumns(Labeled(joined')), arg')
         /\ capture = <<>> => ret'.rows = <<>>
         /\ (\A k \in KeySpace : ~gt[k].present) => ret'.rows = <<>>]_vars

\* C10: Local.label(1.0) returns the number of unlabeled rows that have a
\* prediction (2 for two predicted rows and one unscored row), and 0 when no
\* row has null ground truth.
C10_LabelCountsPredicted ==
    [][(op' = "Local.label" /\ arg' = 100 /\ trace' = <<>>) =>
         ret' = RetInt(Cardinality({i \in 1..Len(db) :
                          /\ db[i].ground_truth = Null
                          /\ db[i].prediction # Null}))]_vars

\* The ground-truth records _load_ground_truth_files reads for an event, in
\* the order it reads them.
RecordsOf(store, e) ==
    SelectSeq(LoadGroundTruthFiles(store).rows, LAMBDA r : r.event_id = e)

\* The rows of a table that belong to an event, in row order.
RowsOf(rows, e) == SelectSeq(rows, LAMBDA r : r.event_id = e)

\* C11: when two or more ground-truth batches for one event are present at
\* join time, the captured rows of the event carry the labels of the batch
\* read last: the k-th row of the event has the k-th label of that batch.
C11_DuplicateBatchLastWins ==
    [][(op' = "Sagemaker.load" /\ ret'.kind = "table") =>
         \A e \in {Events[x] : x \in 1..Len(Events)} :
            LET recs == RecordsOf(gt, e)
                last == recs[Len(recs)].species
                mine == RowsOf(joined', e)
            IN Len(recs) >= 2 =>
                  \A k \in 1..Min(Len(mine), Len(last)) :
                     mine[k].species = last[k]]_vars

\* C12: Sagemaker.label only adds to the ground-truth prefix: a call that
\* finds unlabeled rows stores exactly one new object, holding one record per
\* event with unlabeled rows, and leaves every object stored before as it
\* was; a call that finds nothing stores nothing.
C12_LabelAppendOnly ==
    [][op' = "Sagemaker.label" =>
         /\ \A k \in KeySpace : gt[k].present => gt'[k] = gt[k]
         /\ IF ret'.kind = "int" /\ ret'.n > 0
            THEN \E k \in KeySpace :
                    /\ ~gt[k].present
                    /\ gt'[k].present
                    /\ Len(gt'[k].lines) =
                          Cardinality({r.event_id :
                             r \in {LoadUnlabeledData(capture, gt).rows[i] :
                                i \in 1..ret'.n}})
                    /\ \A j \in KeySpace \ {k} : gt'[j] = gt[j]
            ELSE gt' = gt]_vars

\* C13: every Local load, save and label closes the connection it opened,
\* on every exit path: when the call has returned or raised, no connection
\* it opened is still open.
C13_ConnectionsClosed ==
    op \in {"Local.load", "Local.save", "Local.label"} => leaked = 0

\* The number of labels the ground-truth objects hold for an event.
NumLabels(e) == Len(RowsOf(GroundTruthTable, e))

\* C14: when several capture objects carry one event_id, the joined table
\* has exactly the captured rows, each once and in their order, and the n
\* labels of an event are on exactly the first n rows of that event.
C14_DuplicateCaptureKeysUnique ==
    [][(op' \in {"Sagemaker.load", "Sagemaker.label"} /\ ret'.kind # "raised") =>
         /\ Len(joined') = Len(DataTable)
         /\ \A i \in 1..Len(joined') :
               joined'[i].features = DataTable[i].features
         /\ \A e \in {Events[x] : x \in 1..Len(Events)} :
               LET mine == RowsOf(joined', e)
               IN \A k \in 1..Len(mine) :
                     mine[k].species # Null <=> k <= NumLabels(e)]_vars

\* A load over two capture objects of two items each for one event and a
\* batch of two labels for it: four rows, the first two labeled.
C14_Witness ==
    /\ op = "Sagemaker.load"
    /\ ret.kind = "table"
    /\ Len(capture) = 2
    /\ \E e \in {Events[x] : x \in 1..Len(Events)} :
          /\ Len(RowsOf(joined, e)) = 4
          /\ NumLabels(e) = 2
          /\ RowsOf(joined, e)[2].species # Null
          /\ RowsOf(joined, e)[3].species = Null
          /\ RowsOf(joined, e)[4].species = Null

\* C15: in the local store a label, once set, stays: no call changes a row
\* whose ground_truth is non-null, and no call changes any column of a stored
\* row other than the ground_truth of a row where it was null.
C15_LabelIsStable ==
    [][/\ Len(db') >= Len(db)
       /\ \A i \in 1..Len(db) :
             IF db[i].ground_truth # Null
             THEN db'[i] = db[i]
             ELSE db'[i] = [db[i] EXCEPT !.ground_truth = db'[i].ground_truth]]_vars

\* A label(1.0) call that labeled a row while the table held a row labeled
\* earlier with something other than its prediction, which it still has.
C15_Witness ==
    /\ op = "Local.label"
    /\ arg = 100
    /\ trace = <<>>
    /\ ret.kind = "int"
    /\ ret.n >= 1
    /\ \E i, j \in 1..Len(db) :
          /\ db[i].prediction # Null
          /\ db[i].ground_truth # Null
          /\ db[i].ground_truth # db[i].prediction
          /\ db[j].prediction # Null
          /\ db[j].ground_truth = db[j].prediction

\* C16: labeling on the object store converges: when a Sagemaker.label call
\* has completed, the join finds no unlabeled row, and a label call that
\* follows it directly returns 0 and writes nothing.
C16_LabelingConverges ==
    [][/\ (op' = "Sagemaker.label" /\ ret'.kind = "int") =>
             LET after == LoadUnlabeledData(capture', gt')
             IN ~after.raised /\ after.rows = <<>>
       /\ (op = "Sagemaker.label" /\ ret.kind = "int"
              /\ op' = "Sagemaker.label") =>
             ret' = RetInt(0) /\ gt' = gt]_vars

====
